---------------------------- MODULE Spec2Model ----------------------------
(***************************************************************************)
(* OpenVoronoi: the half-edge property record EdgeProps with its bisector  *)
(* parameterization (src/voronoidiagram_graph.hpp) and the abstract        *)
(* vertex-position Solver (src/src/solvers/solver.hpp).                    *)
(*                                                                         *)
(* C++ doubles are modelled as exact rationals [n, d] in lowest terms with *)
(* d > 0; d = 0 stands for a non-finite double (n = 0: NaN, n = +-1: +-inf)*)
(* which only a division by zero produces.  sqrt() of a rational is kept   *)
(* exactly as a surd c * sqrt(f), f squarefree.                            *)
(***************************************************************************)
EXTENDS Integers, Sequences, FiniteSets

(***************************************************************************)
(* Bounds of the model.                                                    *)
(***************************************************************************)
\* point sites lie at (0,1) and at (i,0), i in 0..MaxCoord
MaxCoord == 1
\* line sites have offset c in -MaxOffset..0
MaxOffset == 1
\* the graph holds at most MaxEdges half-edges
MaxEdges == 2
\* the caller's solution vector holds at most MaxSlns solutions on entry
MaxSlns == 1

VARIABLES
    \* ---- one EdgeProps object
    next, twin, face, k, type, x, y,
    past,      \* the double-sized memory slot that follows y[7]
    \* ---- the process and the last call made on the edge
    status,    \* "running", or "aborted" once an assert has failed
    op,        \* the last call: name, arguments, derivation reached
    written,   \* the locations the last call assigned
    ret,       \* <<p>>: the Point the last point(t) returned
    \* ---- the edge property storage of the graph
    g,
    \* ---- one Solver object and its caller's solution vector
    debug, slns, sret, sop

vars == <<next, twin, face, k, type, x, y, past, status, op, written, ret,
          g, debug, slns, sret, sop>>

edgeVars == <<next, twin, face, k, type, x, y, past, status, op, written, ret>>
solverVars == <<debug, slns, sret, sop>>

(***************************************************************************)
(* double arithmetic                                                       *)
(***************************************************************************)
Abs(i) == IF i < 0 THEN -i ELSE i

RECURSIVE GCD(_, _)
GCD(a, b) == IF b = 0 THEN a ELSE GCD(b, a % b)

NaN == [n |-> 0, d |-> 0]

\* the double n/d; a zero divisor gives inf or NaN as IEEE division does
R(n, d) ==
    IF d = 0 THEN [n |-> IF n > 0 THEN 1 ELSE IF n < 0 THEN -1 ELSE 0, d |-> 0]
    ELSE LET gg == GCD(Abs(n), Abs(d))
             sg == IF d < 0 THEN -1 ELSE 1
         IN [n |-> sg * (n \div gg), d |-> sg * (d \div gg)]

I(i) == R(i, 1)
Zero == I(0)
One == I(1)

Finite(p) == p.d # 0

RAdd(p, q) == IF Finite(p) /\ Finite(q) THEN R(p.n * q.d + q.n * p.d, p.d * q.d) ELSE NaN
RNeg(p) == IF Finite(p) THEN [n |-> -p.n, d |-> p.d] ELSE NaN
RSub(p, q) == RAdd(p, RNeg(q))
RMul(p, q) == IF Finite(p) /\ Finite(q) THEN R(p.n * q.n, p.d * q.d) ELSE NaN
RDiv(p, q) == IF Finite(p) /\ Finite(q) THEN R(p.n * q.d, p.d * q.n) ELSE NaN
\* p >= 0; false for NaN, as every comparison with NaN is
RGe0(p) == Finite(p) /\ p.n >= 0

sq(p) == RMul(p, p)

\* the largest q with q*q dividing m (m > 0)
SqFactor(m) == CHOOSE q \in 1..m : /\ m % (q * q) = 0
                                   /\ \A p \in (q + 1)..m : m % (p * p) # 0

\* sqrt(p) for p >= 0, as the surd c * sqrt(f)
sqrt(p) ==
    LET m == p.n * p.d
    IN IF m = 0 THEN [c |-> Zero, f |-> 1]
       ELSE LET q == SqFactor(m)
            IN [c |-> R(q, p.d), f |-> m \div (q * q)]

\* base + coef * s, a number r + s * sqrt(f) in normal form
Coord(base, coef, s) ==
    LET cs == RMul(coef, s.c)
    IN IF s.f = 1 THEN [r |-> RAdd(base, cs), s |-> Zero, f |-> 1]
       ELSE IF cs = Zero THEN [r |-> base, s |-> Zero, f |-> 1]
       ELSE [r |-> base, s |-> cs, f |-> s.f]

Rational(p) == [r |-> p, s |-> Zero, f |-> 1]

Point(xc, yc) == [x |-> xc, y |-> yc]

\* a double[8] from its eight values
Arr(t) == [i \in 0..7 |-> t[i + 1]]

(***************************************************************************)
(* Sites: the capability surface isPoint(), isLine(), x(), y(), a(), b(),  *)
(* c() the edge code calls.                                                *)
(***************************************************************************)
PointSite(px, py) ==
    [kind |-> "point", x |-> I(px), y |-> I(py), a |-> Zero, b |-> Zero, c |-> Zero]

PointSites == {PointSite(px, 0) : px \in 0..MaxCoord} \cup {PointSite(0, 1)}

\* unit normals (a, b), a*a + b*b = 1
LineDirs == {<<One, Zero>>, <<Zero, One>>, <<R(3, 5), R(4, 5)>>}

LineSite(la, lb, lc) ==
    [kind |-> "line", x |-> Zero, y |-> Zero, a |-> la, b |-> lb, c |-> lc]

LineSites == {LineSite(dir[1], dir[2], I(cc)) : dir \in LineDirs, cc \in (-MaxOffset)..0}

ArcSites == {[kind |-> "arc", x |-> Zero, y |-> Zero, a |-> Zero, b |-> Zero, c |-> Zero]}

Sites == PointSites \cup LineSites \cup ArcSites

NoSite == [kind |-> "none", x |-> Zero, y |-> Zero, a |-> Zero, b |-> Zero, c |-> Zero]

isPoint(s) == s.kind = "point"
isLine(s) == s.kind = "line"

\* the offsets t at which point(t) is called
Offsets == {R(-1, 2), Zero, One}

(***************************************************************************)
(* EdgeProps                                                               *)
(***************************************************************************)
VoronoiEdgeType == {"LINE", "PARABOLA", "ELLIPSE", "HYPERBOLA", "SEPARATOR", "LINESITE"}

TypeLoc == <<"type", 0>>
CoefLocs == {<<"x", i>> : i \in 0..7} \cup {<<"y", i>> : i \in 0..7}

\* the two discriminants of point(t)
discr1(cx, t) == RSub(sq(RAdd(cx[4], RMul(cx[5], t))), sq(RAdd(cx[6], RMul(cx[7], t))))

\* the value point(t) returns for a failed evaluation
FallbackPoint == Point(Rational(Zero), Rational(Zero))

\* one coordinate of a successful evaluation
coordinate(cx, t) ==
    Coord(RSub(RSub(cx[0], cx[1]), RMul(cx[2], t)), cx[3], sqrt(discr1(cx, t)))

point(cx, cy, t) ==
    IF RGe0(discr1(cx, t)) /\ RGe0(discr1(cy, t))
    THEN Point(coordinate(cx, t), coordinate(cy, t))
    ELSE FallbackPoint

\* set_parameters with its last test and the assert(0) lost: whatever is left
\* over is taken for a pair of lines
dispatch_else_ll(s1, s2) ==
    IF isPoint(s1) /\ isPoint(s2) THEN "pp"
    ELSE IF isPoint(s1) /\ isLine(s2) THEN "pl"
    ELSE IF isPoint(s2) /\ isLine(s1) THEN "lp"
    ELSE "ll"

\* the dispatch of set_parameters
dispatch(s1, s2) ==
    IF isPoint(s1) /\ isPoint(s2) THEN "pp"
    ELSE IF isPoint(s1) /\ isLine(s2) THEN "pl"
    ELSE IF isPoint(s2) /\ isLine(s1) THEN "lp"
    ELSE IF isLine(s1) /\ isLine(s2) THEN "ll"
    ELSE "none"

\* the state of the edge a parameterization call works on
Edge == [type |-> type, x |-> x, y |-> y, past |-> past,
         status |-> "running", written |-> {}, reached |-> "none"]

\* called for point(s1)-point(s2) edges
set_pp_parameters(e, s1, s2) ==
    {[e EXCEPT !.type = "LINE", !.written = @ \cup {TypeLoc}, !.reached = "pp"]}

\* alfa3 with the line's offset c forgotten
alfa3_no_c(s1, s2) == RAdd(RMul(s2.a, s1.x), RMul(s2.b, s1.y))

alfa3(s1, s2) == RAdd(RAdd(RMul(s2.a, s1.x), RMul(s2.b, s1.y)), s2.c)

\* called for point(s1)-line(s2) edges
set_pl_parameters(e, s1, s2) ==
    LET al == alfa3(s1, s2)
    IN {[e EXCEPT
          !.type = "PARABOLA",
          !.x = Arr(<<s1.x, RMul(s2.a, al), RNeg(s2.a), s2.b, Zero, One, al, I(-1)>>),
          !.y = Arr(<<s1.y, RMul(s2.b, al), RNeg(s2.b), s2.a, Zero, One, al, I(-1)>>),
          !.written = @ \cup {TypeLoc} \cup CoefLocs,
          !.reached = "pl"]}

delta(s1, s2) == RSub(RMul(s1.a, s2.b), RMul(s1.b, s2.a))

\* set_ll_parameters without its assert
delta_unchecked(d) == TRUE

\* assert( delta != 0 )
delta_nonzero(d) == d # Zero

\* line(s1)-line(s2) edge
set_ll_parameters(e, s1, s2) ==
    LET d == delta(s1, s2)
        e1 == [e EXCEPT !.type = "LINE", !.written = @ \cup {TypeLoc}, !.reached = "ll"]
    IN IF ~delta_nonzero(d) THEN {[e1 EXCEPT !.status = "aborted"]}
       ELSE
         \* y[8]=0 writes past the end of y: the store lands in the memory that
         \* follows the array, or the build drops it
         {[e1 EXCEPT
            !.x = Arr(<<RDiv(RSub(RMul(s1.b, s2.c), RMul(s2.b, s1.c)), d), Zero,
                        RNeg(RSub(s2.b, s1.b)), Zero, Zero, Zero, Zero, Zero>>),
            !.y = Arr(<<RDiv(RSub(RMul(s2.a, s1.c), RMul(s1.a, s2.c)), d), Zero,
                        RNeg(RSub(s1.a, s2.a)), Zero, Zero, Zero, Zero, Zero>>),
            !.written = @ \cup {TypeLoc} \cup CoefLocs \cup {<<"y", 8>>},
            !.past = p] : p \in {e.past, Zero}}

set_parameters(e, s1, s2) ==
    LET dd == dispatch(s1, s2)
    IN IF dd = "pp" THEN set_pp_parameters(e, s1, s2)
       ELSE IF dd = "pl" THEN set_pl_parameters(e, s1, s2)
       ELSE IF dd = "lp" THEN set_pl_parameters(e, s2, s1)
       ELSE IF dd = "ll" THEN set_ll_parameters(e, s2, s1)
       ELSE {[e EXCEPT !.status = "aborted"]}

Call(name, s1, s2, t, reached) ==
    [name |-> name, s1 |-> s1, s2 |-> s2, t |-> t, reached |-> reached]

SetParameters ==
    /\ status = "running"
    /\ \E s1 \in Sites, s2 \in Sites :
         \E r \in set_parameters(Edge, s1, s2) :
            /\ type' = r.type
            /\ x' = r.x
            /\ y' = r.y
            /\ past' = r.past
            /\ status' = r.status
            /\ written' = r.written
            /\ op' = Call("set_parameters", s1, s2, Zero, r.reached)
    /\ ret' = <<>>
    /\ UNCHANGED <<next, twin, face, k, g, solverVars>>

\* the derivations called directly, each on the sites it is written for
SetPPParameters ==
    /\ status = "running"
    /\ \E s1 \in PointSites, s2 \in PointSites :
         \E r \in set_pp_parameters(Edge, s1, s2) :
            /\ type' = r.type
            /\ x' = r.x
            /\ y' = r.y
            /\ past' = r.past
            /\ status' = r.status
            /\ written' = r.written
            /\ op' = Call("set_pp_parameters", s1, s2, Zero, r.reached)
    /\ ret' = <<>>
    /\ UNCHANGED <<next, twin, face, k, g, solverVars>>

SetPLParameters ==
    /\ status = "running"
    /\ \E s1 \in PointSites, s2 \in LineSites :
         \E r \in set_pl_parameters(Edge, s1, s2) :
            /\ type' = r.type
            /\ x' = r.x
            /\ y' = r.y
            /\ past' = r.past
            /\ status' = r.status
            /\ written' = r.written
            /\ op' = Call("set_pl_parameters", s1, s2, Zero, r.reached)
    /\ ret' = <<>>
    /\ UNCHANGED <<next, twin, face, k, g, solverVars>>

SetLLParameters ==
    /\ status = "running"
    /\ \E s1 \in LineSites, s2 \in LineSites :
         \E r \in set_ll_parameters(Edge, s1, s2) :
            /\ type' = r.type
            /\ x' = r.x
            /\ y' = r.y
            /\ past' = r.past
            /\ status' = r.status
            /\ written' = r.written
            /\ op' = Call("set_ll_parameters", s1, s2, Zero, r.reached)
    /\ ret' = <<>>
    /\ UNCHANGED <<next, twin, face, k, g, solverVars>>

EvalPoint ==
    /\ status = "running"
    /\ \E t \in Offsets :
         /\ ret' = <<point(x, y, t)>>
         /\ op' = Call("point", NoSite, NoSite, t, "none")
    /\ written' = {}
    /\ UNCHANGED <<next, twin, face, k, type, x, y, past, status, g, solverVars>>

(***************************************************************************)
(* A newly constructed edge: the constructors set next, twin and face at   *)
(* most; k, type, x and y hold whatever the memory held.                   *)
(***************************************************************************)
\* contents of an uninitialized double[8]
UninitArrays ==
    { [i \in 0..7 |-> Zero],
      [i \in 0..7 |-> IF i = 6 THEN One ELSE Zero],
      [i \in 0..7 |-> IF i \in {0, 3} THEN One ELSE IF i = 4 THEN I(2) ELSE Zero] }

\* edge handles: 0 designates no edge of the graph
Handles == 0..MaxEdges
Faces == 0..1

\* EdgeProps(), EdgeProps(n, f), EdgeProps(n, t, f): an unset member holds any value
EdgeProps0 == [next : Handles, twin : Handles, face : Faces]
EdgeProps2(n, f) == [next : {n}, twin : Handles, face : {f}]
EdgeProps3(n, t, f) == [next : {n}, twin : {t}, face : {f}]

NoCall == Call("none", NoSite, NoSite, Zero, "none")

\* the calls made on a Solver
SolverCall(name, s1, k1, s2, k2, s3, k3, arg) ==
    [name |-> name, s1 |-> s1, k1 |-> k1, s2 |-> s2, k2 |-> k2, s3 |-> s3, k3 |-> k3,
     arg |-> arg]

NoSolverCall == SolverCall("none", NoSite, 0, NoSite, 0, NoSite, 0, 0)

InitGraphIdle == g = <<>>
InitSolverIdle == debug = FALSE /\ slns = <<>> /\ sret = -1 /\ sop = NoSolverCall
InitEdgeIdle ==
    /\ next = 0 /\ twin = 0 /\ face = 0 /\ k = 1
    /\ type = "LINE"
    /\ x = [i \in 0..7 |-> Zero]
    /\ y = [i \in 0..7 |-> Zero]
    /\ past = One
    /\ status = "running"
    /\ op = NoCall
    /\ written = {}
    /\ ret = <<>>

InitEdge ==
    /\ \E p \in EdgeProps3(1, 2, 0) : next = p.next /\ twin = p.twin /\ face = p.face
    /\ k = 1
    /\ type \in VoronoiEdgeType
    /\ x \in UninitArrays
    /\ y \in UninitArrays
    /\ past = One
    /\ status = "running"
    /\ op = NoCall
    /\ written = {}
    /\ ret = <<>>
    /\ InitGraphIdle
    /\ InitSolverIdle

NextEdge ==
    \/ SetParameters
    \/ SetPPParameters
    \/ SetPLParameters
    \/ SetLLParameters
    \/ EvalPoint

SpecEdge == InitEdge /\ [][NextEdge]_vars

(***************************************************************************)
(* The graph's edge property storage: a half-edge is created by            *)
(* constructing its EdgeProps; its handle is its position.                 *)
(***************************************************************************)
AddEdgeDefault ==
    /\ Len(g) < MaxEdges
    /\ \E p \in EdgeProps0 : g' = Append(g, p)
    /\ UNCHANGED <<edgeVars, solverVars>>

AddEdgeNextFace ==
    /\ Len(g) < MaxEdges
    /\ \E n \in Handles, f \in Faces : \E p \in EdgeProps2(n, f) : g' = Append(g, p)
    /\ UNCHANGED <<edgeVars, solverVars>>

AddEdgeNextTwinFace ==
    /\ Len(g) < MaxEdges
    /\ \E n \in Handles, t \in Handles, f \in Faces :
         \E p \in EdgeProps3(n, t, f) : g' = Append(g, p)
    /\ UNCHANGED <<edgeVars, solverVars>>

InitGraph == InitEdgeIdle /\ InitGraphIdle /\ InitSolverIdle

NextGraph ==
    \/ AddEdgeDefault
    \/ AddEdgeNextFace
    \/ AddEdgeNextTwinFace

SpecGraph == InitGraph /\ [][NextGraph]_vars

(***************************************************************************)
(* Solver                                                                  *)
(***************************************************************************)
\* the Solution values a caller's vector may hold
Solutions == {"sln_a", "sln_b"}

SlnVectors == UNION {[1..n -> Solutions] : n \in 0..MaxSlns}

\* one site of each kind
SolverSites == {PointSite(0, 0), LineSite(One, Zero, I(-1))} \cup ArcSites

Directions == {1, -1}

\* a solve that reports one solution and appends it
solve_k_appends(s1, k1, s2, k2, s3, k3, v) == [ret |-> 1, slns |-> Append(v, "sln_a")]

\* solve(s1, k1, s2, k2, s3, k3, slns)
solve_k(s1, k1, s2, k2, s3, k3, v) == [ret |-> 0, slns |-> v]

\* solve(s1, s2, s3, slns)
solve(s1, s2, s3, v) == [ret |-> 0, slns |-> v]

SolveK ==
    /\ \E s1 \in SolverSites, s2 \in SolverSites, s3 \in SolverSites,
          k1 \in Directions, k2 \in Directions, k3 \in Directions :
         LET r == solve_k(s1, k1, s2, k2, s3, k3, slns)
         IN /\ sret' = r.ret
            /\ slns' = r.slns
            /\ sop' = SolverCall("solve_k", s1, k1, s2, k2, s3, k3, 0)
    /\ UNCHANGED <<debug, edgeVars, g>>

Solve ==
    /\ \E s1 \in SolverSites, s2 \in SolverSites, s3 \in SolverSites :
         LET r == solve(s1, s2, s3, slns)
         IN /\ sret' = r.ret
            /\ slns' = r.slns
            /\ sop' = SolverCall("solve", s1, 0, s2, 0, s3, 0, 0)
    /\ UNCHANGED <<debug, edgeVars, g>>

SetType ==
    /\ \E i \in 0..1 : sop' = SolverCall("set_type", NoSite, 0, NoSite, 0, NoSite, 0, i)
    /\ UNCHANGED <<debug, slns, sret, edgeVars, g>>

SetDebug ==
    /\ \E b \in BOOLEAN :
         /\ debug' = b
         /\ sop' = SolverCall("set_debug", NoSite, 0, NoSite, 0, NoSite, 0, IF b THEN 1 ELSE 0)
    /\ UNCHANGED <<slns, sret, edgeVars, g>>

\* a Solver's constructor leaves debug unset
InitSolver ==
    /\ InitEdgeIdle
    /\ InitGraphIdle
    /\ debug \in BOOLEAN
    /\ slns \in SlnVectors
    /\ sret = -1
    /\ sop = NoSolverCall

NextSolver ==
    \/ SolveK
    \/ Solve
    \/ SetType
    \/ SetDebug

SpecSolver == InitSolver /\ [][NextSolver]_vars

(***************************************************************************)
(* Properties                                                              *)
(***************************************************************************)
RLt0(p) == Finite(p) /\ p.n < 0

SetCalls == {"set_parameters", "set_pp_parameters", "set_pl_parameters", "set_ll_parameters"}

Origin == Point(Rational(Zero), Rational(Zero))

\* (c[4] + c[5]*t)^2 - (c[6] + c[7]*t)^2
Discriminant(c, t) ==
    RSub(RMul(RAdd(c[4], RMul(c[5], t)), RAdd(c[4], RMul(c[5], t))),
         RMul(RAdd(c[6], RMul(c[7], t)), RAdd(c[6], RMul(c[7], t))))

\* C1: when either discriminant is negative at t, point(t) does not hand the
\* caller the fallback point (0,0), a value successful evaluations also give.
C1_DomainErrorReported ==
    (op.name = "point" /\ (RLt0(Discriminant(x, op.t)) \/ RLt0(Discriminant(y, op.t))))
        => ret # <<Origin>>

\* C2: after set_parameters(point (0,0), line a=1 b=0 c=-1), alfa3 (stored in
\* x[6]) is -1 and point(0) is (0.5, 0).
C2_PointLineMidpoint ==
    [][ ( /\ op.name = "set_parameters"
          /\ op.s1 = PointSite(0, 0)
          /\ op.s2 = LineSite(One, Zero, I(-1))
          /\ op'.name = "point"
          /\ op'.t = Zero )
        => ( /\ x[6] = I(-1)
             /\ ret' = <<Point(Rational(R(1, 2)), Rational(Zero))>> ) ]_vars

Parallel(s1, s2) == RSub(RMul(s1.a, s2.b), RMul(s1.b, s2.a)) = Zero

\* C3: a line-line parameterization of two parallel lines, called directly or
\* through set_parameters, fails before dividing by delta and writes no
\* coefficient of the edge.
C3_ParallelRejected ==
    [][ ( /\ op'.name \in {"set_parameters", "set_ll_parameters"}
          /\ isLine(op'.s1) /\ isLine(op'.s2)
          /\ Parallel(op'.s1, op'.s2) )
        => ( /\ status' = "aborted"
             /\ x' = x
             /\ y' = y
             /\ written' \cap CoefLocs = {} ) ]_vars

C3_Witness ==
    /\ op.name = "set_parameters"
    /\ isLine(op.s1) /\ isLine(op.s2)
    /\ op.s1 # op.s2
    /\ Parallel(op.s1, op.s2)
    /\ status = "aborted"

\* C4: set_parameters reaches the point-point, point-line or line-line
\* derivation for the four supported pairs, and rejects every pair with a site
\* that is neither a point nor a line, leaving type and coefficients as they were.
C4_Dispatch ==
    [][ op'.name = "set_parameters" =>
          LET s1 == op'.s1
              s2 == op'.s2
          IN /\ (isPoint(s1) /\ isPoint(s2)) => op'.reached = "pp"
             /\ (isPoint(s1) /\ isLine(s2)) => op'.reached = "pl"
             /\ (isLine(s1) /\ isPoint(s2)) => op'.reached = "pl"
             /\ (isLine(s1) /\ isLine(s2)) => op'.reached = "ll"
             /\ (~(isPoint(s1) \/ isLine(s1)) \/ ~(isPoint(s2) \/ isLine(s2)))
                  => ( /\ op'.reached = "none"
                       /\ status' = "aborted"
                       /\ type' = type
                       /\ x' = x
                       /\ y' = y ) ]_vars

C4_Witness ==
    /\ op.name = "set_parameters"
    /\ op.s1.kind = "arc"
    /\ isLine(op.s2)
    /\ status = "aborted"
    /\ type = "PARABOLA"

\* C5: set_parameters(s1, s2) on non-parallel lines leaves type LINE and the
\* line-line coefficients of the pair in the order given: index 1 is s1.
C5_LineLineOrdered ==
    ( /\ op.name = "set_parameters"
      /\ isLine(op.s1) /\ isLine(op.s2)
      /\ ~Parallel(op.s1, op.s2) )
    => LET a1 == op.s1.a  b1 == op.s1.b  c1 == op.s1.c
           a2 == op.s2.a  b2 == op.s2.b  c2 == op.s2.c
           dl == RSub(RMul(a1, b2), RMul(b1, a2))
       IN /\ type = "LINE"
          /\ x = Arr(<<RDiv(RSub(RMul(b1, c2), RMul(b2, c1)), dl), Zero,
                       RNeg(RSub(b2, b1)), Zero, Zero, Zero, Zero, Zero>>)
          /\ y = Arr(<<RDiv(RSub(RMul(a2, c1), RMul(a1, c2)), dl), Zero,
                       RNeg(RSub(a1, a2)), Zero, Zero, Zero, Zero, Zero>>)

\* C6: a parameterization call assigns nothing but the type tag and the slots
\* 0..7 of x and y.
C6_WritesOnlyTypeAndCoefficients ==
    op.name \in SetCalls => written \subseteq ({TypeLoc} \cup CoefLocs)

\* C7: when the last call was set_parameters on two points, the type is LINE
\* and that call populated all sixteen coefficients, with no square-root term.
C7_PointPointPopulated ==
    (op.name = "set_parameters" /\ isPoint(op.s1) /\ isPoint(op.s2))
    => ( /\ type = "LINE"
         /\ CoefLocs \subseteq written
         /\ x[3] = Zero
         /\ y[3] = Zero )

\* C8: set_parameters on a point P and a line L, in either order, leaves type
\* PARABOLA and x = [x1, a2*alfa3, -a2, b2, 0, 1, alfa3, -1],
\* y = [y1, b2*alfa3, -b2, a2, 0, 1, alfa3, -1], alfa3 = a2*x1 + b2*y1 + c2.
C8_PointLineCoefficients ==
    ( /\ op.name = "set_parameters"
      /\ \/ isPoint(op.s1) /\ isLine(op.s2)
         \/ isLine(op.s1) /\ isPoint(op.s2) )
    => LET P == IF isPoint(op.s1) THEN op.s1 ELSE op.s2
           L == IF isPoint(op.s1) THEN op.s2 ELSE op.s1
           al == RAdd(RAdd(RMul(L.a, P.x), RMul(L.b, P.y)), L.c)
       IN /\ type = "PARABOLA"
          /\ x = Arr(<<P.x, RMul(L.a, al), RNeg(L.a), L.b, Zero, One, al, I(-1)>>)
          /\ y = Arr(<<P.y, RMul(L.b, al), RNeg(L.b), L.a, Zero, One, al, I(-1)>>)

C8_Witness ==
    /\ op.name = "set_parameters"
    /\ isLine(op.s1) /\ isPoint(op.s2)
    /\ op.s1.c # Zero
    /\ x[6] # Zero
    /\ type = "PARABOLA"

\* C9: every half-edge of the graph has a twin in the graph whose twin it is.
C9_TwinSymmetry ==
    \A e \in 1..Len(g) :
        /\ g[e].twin \in 1..Len(g)
        /\ g[g[e].twin].twin = e

\* C10: both solve overloads of the base Solver return 0 and leave the
\* caller's solution vector as it was, whatever debug holds.
C10_SolveReturnsNothing ==
    [][ sop'.name \in {"solve_k", "solve"} => (sret' = 0 /\ slns' = slns) ]_vars

C10_Witness ==
    /\ sop.name = "solve_k"
    /\ debug
    /\ Len(slns) > 0
    /\ sret = 0

=============================================================================
